---------------------------- MODULE Spec2Model ----------------------------
(***************************************************************************)
(* BoomAI fix location and patch application.                              *)
(*                                                                         *)
(* A Python str is modelled as a sequence of one-character strings, so     *)
(* "a \nb" is <<"a", " ", "\n", "b">>.  None is the one-element sequence   *)
(* <<"None">>, which is no character sequence.                             *)
(***************************************************************************)
EXTENDS Integers, Sequences, FiniteSets, TLC

VARIABLES
    pc,            \* position of the running operation
    content,       \* locator: file text / apply_local: text of the file being patched
    old_code,      \* locator input
    new_code,      \* locator input
    hint_line,     \* locator input
    nl_arg,        \* _is_natural_language input
    ret,           \* value returned by the operation that ran
    findings,      \* apply_local input: the review's findings, in order
    file_filter,   \* apply_local input
    disk,          \* path -> file text, or None when the path does not exist
    by_file,       \* apply_local: <<path, findings of that path>> in insertion order
    fi,            \* apply_local: index into by_file of the file being processed
    todo,          \* apply_local: the sorted findings of the file still to apply
    file_applied,  \* apply_local local
    applied,       \* apply_local local
    out,           \* lines printed so far
    calls,         \* arguments of every _find_and_replace call made by apply_local
    writes,        \* paths opened for writing (local) or committed (remote), in order
    checked,       \* apply_batch input: the numbers checked in the comment, in order
    file_contents, \* _chunk_files input: <<path, content>> pairs
    char_budget,   \* _chunk_files input
    comment_body   \* handle_command input: the text of the comment, or None

vars == <<pc, content, old_code, new_code, hint_line, nl_arg, ret, findings,
          file_filter,
          disk, by_file, fi, todo, file_applied, applied, out, calls, writes,
          checked, file_contents, char_budget, comment_body>>

None == <<"None">>

(***************************************************************************)
(* Python built-ins on str, by what they do.                               *)
(***************************************************************************)

\* The control characters \x0b, \x1c, \x1d, \x1e and \x1f, written raw: Python
\* counts them as whitespace, and all but the last as line boundaries.
VT == ""

FS == ""

GS == ""

RS == ""

US == ""

\* U+0085 (next line), U+00A0 (no-break space) and U+1680 (ogham space
\* mark), written raw: whitespace for Python, the first a line boundary too.
NEL == ""

NBSP == " "

OGHAM == " "

\* Characters str.strip()/rstrip() remove: every character of str.isspace()
\* that a string of this module can hold.  The others (U+2000-U+200A, U+2028,
\* U+2029, U+202F, U+205F, U+3000) are rejected inside a string, so no
\* string of the model holds one.
WhiteSpace == {" ", "\t", "\n", "\r", "\f", VT, FS, GS, RS, US, NEL, NBSP, OGHAM}

Max(S) == CHOOSE x \in S : \A y \in S : y <= x

Min(S) == CHOOSE x \in S : \A y \in S : x <= y

abs(x) == IF x < 0 THEN -x ELSE x

\* s.rstrip()
rstrip(s) ==
    LET keep == {i \in 1..Len(s) : s[i] \notin WhiteSpace}
    IN  IF keep = {} THEN <<>> ELSE SubSeq(s, 1, Max(keep))

\* s.lstrip()
lstrip(s) ==
    LET keep == {i \in 1..Len(s) : s[i] \notin WhiteSpace}
    IN  IF keep = {} THEN <<>> ELSE SubSeq(s, Min(keep), Len(s))

\* s.strip()
strip(s) == lstrip(rstrip(s))

\* s.startswith(p)
startswith(s, p) == Len(s) >= Len(p) /\ SubSeq(s, 1, Len(p)) = p

\* s.find(sub) + 1: the 1-based index of the first occurrence of sub, 0 if none
find(s, sub) ==
    LET at == {i \in 1..(Len(s) - Len(sub) + 1) : SubSeq(s, i, i + Len(sub) - 1) = sub}
    IN  IF at = {} THEN 0 ELSE Min(at)

\* sub in s
contains(s, sub) == find(s, sub) # 0

\* s.replace(old, new): every occurrence, left to right
RECURSIVE replace_all(_, _, _)
replace_all(s, old, new) ==
    LET i == find(s, old)
    IN  IF i = 0 \/ old = <<>> THEN IF old = <<>> THEN new \o s ELSE s
        ELSE SubSeq(s, 1, i - 1) \o new
             \o replace_all(SubSeq(s, i + Len(old), Len(s)), old, new)

\* s.replace(old, new, 1)
replace_first(s, old, new) ==
    LET i == find(s, old)
    IN  IF i = 0 THEN s
        ELSE SubSeq(s, 1, i - 1) \o new \o SubSeq(s, i + Len(old), Len(s))

\* s.replace('\r\n', '\n')
RECURSIVE normalize_newlines(_)
normalize_newlines(s) ==
    IF s = <<>> THEN <<>>
    ELSE IF Len(s) >= 2 /\ s[1] = "\r" /\ s[2] = "\n"
         THEN <<"\n">> \o normalize_newlines(SubSeq(s, 3, Len(s)))
         ELSE <<s[1]>> \o normalize_newlines(Tail(s))

\* text-mode read: '\r\n' and a lone '\r' arrive as '\n'
RECURSIVE universal_newlines(_)
universal_newlines(s) ==
    IF s = <<>> THEN <<>>
    ELSE IF Len(s) >= 2 /\ s[1] = "\r" /\ s[2] = "\n"
         THEN <<"\n">> \o universal_newlines(SubSeq(s, 3, Len(s)))
         ELSE IF s[1] = "\r"
              THEN <<"\n">> \o universal_newlines(Tail(s))
              ELSE <<s[1]>> \o universal_newlines(Tail(s))

\* s.split('\n'): never empty, '' splits to ['']
RECURSIVE split(_)
split(s) ==
    LET i == find(s, <<"\n">>)
    IN  IF i = 0 THEN <<s>>
        ELSE <<SubSeq(s, 1, i - 1)>> \o split(SubSeq(s, i + 1, Len(s)))

\* '\n'.join(lines)
RECURSIVE join(_)
join(lines) ==
    IF lines = <<>> THEN <<>>
    ELSE IF Len(lines) = 1 THEN lines[1]
    ELSE lines[1] \o <<"\n">> \o join(Tail(lines))

\* bool(x) of an optional str: None and '' are falsy
truthy(x) == x # None /\ x # <<>>


(***************************************************************************)
(* Natural-language filter (boomai/cli.py).                                *)
(***************************************************************************)

instruction_starters_no_use ==
    { <<"R", "e", "m", "o", "v", "e", " ">>,
      <<"D", "e", "l", "e", "t", "e", " ">>,
      <<"R", "e", "p", "l", "a", "c", "e", " ">>,
      <<"U", "p", "d", "a", "t", "e", " ">>,
      <<"C", "h", "a", "n", "g", "e", " ">>,
      <<"R", "e", "n", "a", "m", "e", " ">>,
      <<"M", "o", "v", "e", " ">>,
      <<"A", "d", "d", " ">>,
      <<"E", "n", "s", "u", "r", "e", " ">>,
      <<"C", "o", "n", "s", "i", "d", "e", "r", " ">>,
      <<"R", "e", "f", "a", "c", "t", "o", "r", " ">>,
      <<"F", "i", "x", " ">>,
      <<"I", "m", "p", "l", "e", "m", "e", "n", "t", " ">>,
      <<"C", "o", "n", "v", "e", "r", "t", " ">> }

instruction_starters ==
    { <<"R", "e", "m", "o", "v", "e", " ">>,
      <<"D", "e", "l", "e", "t", "e", " ">>,
      <<"R", "e", "p", "l", "a", "c", "e", " ">>,
      <<"U", "p", "d", "a", "t", "e", " ">>,
      <<"C", "h", "a", "n", "g", "e", " ">>,
      <<"R", "e", "n", "a", "m", "e", " ">>,
      <<"M", "o", "v", "e", " ">>,
      <<"A", "d", "d", " ">>,
      <<"E", "n", "s", "u", "r", "e", " ">>,
      <<"C", "o", "n", "s", "i", "d", "e", "r", " ">>,
      <<"R", "e", "f", "a", "c", "t", "o", "r", " ">>,
      <<"F", "i", "x", " ">>,
      <<"I", "m", "p", "l", "e", "m", "e", "n", "t", " ">>,
      <<"U", "s", "e", " ">>,
      <<"C", "o", "n", "v", "e", "r", "t", " ">> }

code_chars == {"{", "}", "(", ")", ";", "=", "<", ">", "[", "]"}

_is_natural_language(suggestion) ==
    LET s == strip(suggestion)
    IN  IF \E p \in instruction_starters : startswith(s, p)
        THEN TRUE
        ELSE IF ~ \E c \in code_chars : contains(s, <<c>>)
             THEN TRUE
             ELSE FALSE

(***************************************************************************)
(* Fuzzy code locator and single substitution (boomai/cli.py).             *)
(***************************************************************************)

\* while old_stripped and not old_stripped[0].strip(): old_stripped.pop(0)
RECURSIVE pop_blank_head(_)
pop_blank_head(old_stripped) ==
    IF old_stripped # <<>> /\ strip(old_stripped[1]) = <<>>
    THEN pop_blank_head(Tail(old_stripped))
    ELSE old_stripped

\* while old_stripped and not old_stripped[-1].strip(): old_stripped.pop()
RECURSIVE pop_blank_tail(_)
pop_blank_tail(old_stripped) ==
    IF old_stripped # <<>> /\ strip(old_stripped[Len(old_stripped)]) = <<>>
    THEN pop_blank_tail(SubSeq(old_stripped, 1, Len(old_stripped) - 1))
    ELSE old_stripped

\* the lines of old_code with every blank line dropped, interior ones too
old_stripped_no_blank(old) ==
    LET old_lines == split(strip(old))
        stripped  == [k \in 1..Len(old_lines) |-> rstrip(old_lines[k])]
    IN  SelectSeq(stripped, LAMBDA l : l # <<>>)

\* old_lines = old_code.strip().split('\n'), each line rstripped, blank ends popped
old_stripped_of(old) ==
    LET old_lines == split(strip(old))
        stripped  == [k \in 1..Len(old_lines) |-> rstrip(old_lines[k])]
    IN  pop_blank_tail(pop_blank_head(stripped))

\* best_distance is <<>> for float('inf') and <<d>> for the number d
closer_or_equal(distance, best_distance) ==
    best_distance = <<>> \/ distance <= best_distance[1]

\* distance < best_distance
closer(distance, best_distance) ==
    best_distance = <<>> \/ distance < best_distance[1]

\* window = [content_lines[i + j].rstrip() for j in range(n)], i 0-based
window_at(content_lines, i, n) ==
    [j \in 1..n |-> rstrip(content_lines[i + j])]

\* the for loop of _line_match from position i on, with its two accumulators
RECURSIVE line_match_scan(_, _, _, _, _, _)
line_match_scan(content_lines, old_stripped, hint, i, best, best_distance) ==
    LET n == Len(old_stripped)
        distance == abs(i - (hint - 1))
    IN  IF i >= Len(content_lines) - n + 1
        THEN best
        ELSE IF window_at(content_lines, i, n) = old_stripped
                /\ closer(distance, best_distance)
             THEN line_match_scan(content_lines, old_stripped, hint, i + 1,
                                  <<i, n>>, <<distance>>)
             ELSE line_match_scan(content_lines, old_stripped, hint, i + 1,
                                  best, best_distance)

\* returns <<start_line_idx, line_count>> or None
_line_match(c, old, hint) ==
    LET content_lines == split(c)
        old_stripped  == old_stripped_of(old)
    IN  IF old_stripped = <<>>
        THEN None
        ELSE line_match_scan(content_lines, old_stripped, hint, 0, None, <<>>)

\* lines[start_idx:start_idx + n - 1] = new_lines
splice_one_short(lines, start_idx, n, new_lines) ==
    SubSeq(lines, 1, start_idx) \o new_lines \o SubSeq(lines, start_idx + n, Len(lines))

\* the slice assignment on lines that were stripped for the comparison
splice_stripped(lines, start_idx, n, new_lines) ==
    [k \in 1..start_idx |-> rstrip(lines[k])] \o new_lines
    \o [k \in 1..(Len(lines) - start_idx - n) |-> rstrip(lines[start_idx + n + k])]

\* lines[start_idx + 1:start_idx + 1 + n] = new_lines
splice_from_next(lines, start_idx, n, new_lines) ==
    SubSeq(lines, 1, start_idx + 1) \o new_lines
    \o SubSeq(lines, start_idx + n + 2, Len(lines))

\* lines[start_idx:start_idx + n] = new_lines
splice(lines, start_idx, n, new_lines) ==
    SubSeq(lines, 1, start_idx) \o new_lines \o SubSeq(lines, start_idx + n + 1, Len(lines))

\* returns <<new_content, success>>
_find_and_replace(c0, old0, new0, hint) ==
    LET c   == normalize_newlines(c0)
        old == normalize_newlines(old0)
        new == normalize_newlines(new0)
        match == _line_match(c, old, hint)
    IN  IF contains(c, old)
        THEN <<replace_first(c, old, new), TRUE>>
        ELSE IF match # None
             THEN <<join(splice(split(c), match[1], match[2], split(new))), TRUE>>
             ELSE <<c, FALSE>>

(***************************************************************************)
(* apply_local (boomai/cli.py).  A finding is a record                     *)
(* [file, line, old_code, suggestion]; a path is a character sequence.     *)
(***************************************************************************)

\* what print() is given: one record per printed line
NoApplicableMsg == [msg |-> "No applicable suggestions found.", file |-> <<>>, line |-> 0, n |-> 0]

SkipFileMsg(filepath) == [msg |-> "SKIP (file not found locally)", file |-> filepath, line |-> 0, n |-> 0]

SkipCodeMsg(filepath, line) == [msg |-> "SKIP (code not found)", file |-> filepath, line |-> line, n |-> 0]

AppliedMsg(n, filepath) == [msg |-> "Applied fix(es)", file |-> filepath, line |-> 0, n |-> n]

\* _is_natural_language(f.suggestion), the old_code test forgotten
skip_natural_language_suggestion_only(f) ==
    _is_natural_language(f.suggestion)

\* _is_natural_language(f.suggestion) or _is_natural_language(f.old_code)
skip_natural_language(f) ==
    _is_natural_language(f.suggestion) \/ _is_natural_language(f.old_code)

\* the grouping loop without its file_filter test
groupable_any_file(f, filter) ==
    IF ~ truthy(f.suggestion) \/ ~ truthy(f.old_code) THEN FALSE
    ELSE IF skip_natural_language(f) THEN FALSE
    ELSE TRUE

\* the three tests of the grouping loop: TRUE when f reaches by_file
groupable(f, filter) ==
    IF ~ truthy(f.suggestion) \/ ~ truthy(f.old_code) THEN FALSE
    ELSE IF skip_natural_language(f) THEN FALSE
    ELSE IF truthy(filter) /\ f.file # filter THEN FALSE
    ELSE TRUE

\* by_file.setdefault(f.file, []).append(f), by_file kept in insertion order
setdefault_append(groups, f) ==
    IF \E k \in 1..Len(groups) : groups[k][1] = f.file
    THEN [k \in 1..Len(groups) |->
            IF groups[k][1] = f.file
            THEN <<groups[k][1], Append(groups[k][2], f)>>
            ELSE groups[k]]
    ELSE Append(groups, <<f.file, <<f>>>>)

\* the grouping loop over findings[k..]
RECURSIVE group_findings(_, _, _, _)
group_findings(fs, filter, k, groups) ==
    IF k > Len(fs) THEN groups
    ELSE group_findings(fs, filter, k + 1,
                        IF groupable(fs[k], filter)
                        THEN setdefault_append(groups, fs[k])
                        ELSE groups)

\* key=lambda x: x.line without reverse=True: g stays before f
stays_before_ascending(g, f) == g.line <= f.line

\* key=lambda x: x.line, reverse=True: g stays before f, its equals included
stays_before(g, f) == g.line >= f.line

\* insertion of f into a list sorted by line descending, after its equals
RECURSIVE insert_desc(_, _)
insert_desc(sorted, f) ==
    IF sorted = <<>> THEN <<f>>
    ELSE IF stays_before(Head(sorted), f)
         THEN <<Head(sorted)>> \o insert_desc(Tail(sorted), f)
         ELSE <<f>> \o sorted

\* sorted(file_findings, key=lambda x: x.line, reverse=True): stable
RECURSIVE sorted_by_line_desc(_)
sorted_by_line_desc(fs) ==
    IF fs = <<>> THEN <<>>
    ELSE insert_desc(sorted_by_line_desc(SubSeq(fs, 1, Len(fs) - 1)), fs[Len(fs)])

locatorVars == <<old_code, new_code, hint_line, nl_arg, checked, file_contents,
                 char_budget, comment_body>>

\* the grouping loop, and the early return when nothing is applicable
GroupFindings ==
    /\ pc = "start"
    /\ LET groups == group_findings(findings, file_filter, 1, <<>>)
       IN  /\ by_file' = groups
           /\ IF groups = <<>>
              THEN /\ out' = Append(out, NoApplicableMsg)
                   /\ ret' = 0
                   /\ pc' = "done"
                   /\ UNCHANGED <<applied, fi>>
              ELSE /\ applied' = 0
                   /\ fi' = 1
                   /\ pc' = "file"
                   /\ UNCHANGED <<out, ret>>
    /\ UNCHANGED <<content, locatorVars, findings, file_filter, disk, todo,
                   file_applied, calls, writes>>

\* what a path can hold besides nothing (None) and the bytes of a file
Directory == <<"directory">>

Unreadable == <<"unreadable">>

\* a byte that is not valid UTF-8, inside the bytes of a file
InvalidByte == "\\xff"

\* os.path.exists(full_path)
exists(d) == d # None

\* the exception of open(full_path, "r", encoding="utf-8") and fh.read(),
\* None when they succeed
open_read_error(d) ==
    IF d = Directory THEN <<"IsADirectoryError">>
    ELSE IF d = Unreadable THEN <<"PermissionError">>
    ELSE IF \E i \in 1..Len(d) : d[i] = InvalidByte THEN <<"UnicodeDecodeError">>
    ELSE None

\* one 'file not found' line for every finding of the file
skip_reports_per_edit(filepath, file_findings) ==
    [k \in 1..Len(file_findings) |-> SkipFileMsg(filepath)]

\* print(f"  SKIP {filepath} (file not found locally)"), then continue
skip_reports(filepath, file_findings) == <<SkipFileMsg(filepath)>>

\* for filepath, file_findings in by_file.items(): the file does not exist
SkipMissingFile ==
    /\ pc = "file"
    /\ fi <= Len(by_file)
    /\ ~ exists(disk[by_file[fi][1]])
    /\ out' = out \o skip_reports(by_file[fi][1], by_file[fi][2])
    /\ fi' = fi + 1
    /\ UNCHANGED <<pc, content, locatorVars, ret, findings, file_filter, disk,
                   by_file, todo, file_applied, applied, calls, writes>>

\* the file exists: read it, normalise line endings, sort its findings
ReadFile ==
    /\ pc = "file"
    /\ fi <= Len(by_file)
    /\ exists(disk[by_file[fi][1]])
    /\ open_read_error(disk[by_file[fi][1]]) = None
    /\ content' = normalize_newlines(universal_newlines(disk[by_file[fi][1]]))
    /\ todo' = sorted_by_line_desc(by_file[fi][2])
    /\ file_applied' = 0
    /\ pc' = "edits"
    /\ UNCHANGED <<locatorVars, ret, findings, file_filter, disk, by_file, fi,
                   applied, out, calls, writes>>

\* the file exists and open() or read() raises: apply_local has no handler
OpenRaises ==
    /\ pc = "file"
    /\ fi <= Len(by_file)
    /\ exists(disk[by_file[fi][1]])
    /\ open_read_error(disk[by_file[fi][1]]) # None
    /\ ret' = open_read_error(disk[by_file[fi][1]])
    /\ pc' = "raised"
    /\ UNCHANGED <<content, locatorVars, findings, file_filter, disk, by_file, fi,
                   todo, file_applied, applied, out, calls, writes>>

\* one iteration of the loop over the file's sorted findings
ApplyEdit ==
    /\ pc = "edits"
    /\ todo # <<>>
    /\ LET f == Head(todo)
           r == _find_and_replace(content, f.old_code, f.suggestion, f.line)
       IN  /\ calls' = Append(calls, [finding |-> f, content |-> content, ok |-> r[2]])
           /\ content' = r[1]
           /\ IF r[2]
              THEN /\ file_applied' = file_applied + 1
                   /\ out' = out
              ELSE /\ file_applied' = file_applied
                   /\ out' = Append(out, SkipCodeMsg(by_file[fi][1], f.line))
    /\ todo' = Tail(todo)
    /\ UNCHANGED <<pc, locatorVars, ret, findings, file_filter, disk, by_file, fi,
                   applied, writes>>

\* the file is written whatever was applied
written_always(n) == TRUE

\* if file_applied:
written(n) == n # 0

\* applied = file_applied
last_file_only(total, n) == n

\* applied += file_applied
add_applied(total, n) == total + n

\* after the file's last finding: write the file if anything was applied
FinishFile ==
    /\ pc = "edits"
    /\ todo = <<>>
    /\ IF written(file_applied)
       THEN /\ disk' = [disk EXCEPT ![by_file[fi][1]] = content]
            /\ writes' = Append(writes, by_file[fi][1])
            /\ out' = Append(out, AppliedMsg(file_applied, by_file[fi][1]))
            /\ applied' = add_applied(applied, file_applied)
       ELSE UNCHANGED <<disk, writes, out, applied>>
    /\ fi' = fi + 1
    /\ pc' = "file"
    /\ UNCHANGED <<content, locatorVars, ret, findings, file_filter, by_file, todo,
                   file_applied, calls>>

\* return applied
ReturnApplied ==
    /\ pc = "file"
    /\ fi > Len(by_file)
    /\ ret' = applied
    /\ pc' = "done"
    /\ UNCHANGED <<content, locatorVars, findings, file_filter, disk, by_file, fi,
                   todo, file_applied, applied, out, calls, writes>>

(***************************************************************************)
(* Inputs of the locator specification.                                    *)
(***************************************************************************)

MaxLines == 3

MaxOldLines == 2

MaxHint == 3

\* the lines files and old_code blocks are made of: plain, indented,
\* with trailing whitespace, blank
LineVocab == { <<"a">>, <<" ", "a">>, <<"a", " ">>, <<>> }

\* every text of 1..k lines of LineVocab
Texts(k) == UNION { { join(ls) : ls \in [1..m -> LineVocab] } : m \in 1..k }

Contents == Texts(MaxLines)

OldCodes == Texts(MaxOldLines)

NewCodes == { <<>>, <<"b">>, <<"b", "\n", "b">> }

Hints == 1..MaxHint

(***************************************************************************)
(* Specification of the locator: one call of _line_match or of             *)
(* _find_and_replace on inputs drawn from the sets above.                  *)
(***************************************************************************)

IdleApply ==
    /\ findings = <<>>
    /\ file_filter = None
    /\ disk = <<>>
    /\ by_file = <<>>
    /\ fi = 0
    /\ todo = <<>>
    /\ file_applied = 0
    /\ applied = 0
    /\ out = <<>>
    /\ calls = <<>>
    /\ writes = <<>>
    /\ checked = <<>>
    /\ file_contents = <<>>
    /\ char_budget = 0
    /\ comment_body = None

applyVars == <<findings, file_filter, disk, by_file, fi, todo, file_applied,
               applied, out, calls, writes, checked, file_contents,
               char_budget, comment_body>>

InitLocate ==
    /\ pc = "start"
    /\ content \in Contents
    /\ old_code \in OldCodes
    /\ new_code = <<>>
    /\ hint_line = 0
    /\ nl_arg = None
    /\ ret = None
    /\ IdleApply

CallLineMatch ==
    /\ pc = "start"
    /\ \E h \in Hints :
          /\ hint_line' = h
          /\ ret' = _line_match(content, old_code, h)
    /\ pc' = "line_match"
    /\ UNCHANGED <<content, old_code, new_code, nl_arg, applyVars>>

CallFindAndReplace ==
    /\ pc = "start"
    /\ \E h \in Hints, new \in NewCodes :
          /\ hint_line' = h
          /\ new_code' = new
          /\ ret' = _find_and_replace(content, old_code, new, h)
    /\ pc' = "find_and_replace"
    /\ UNCHANGED <<content, old_code, nl_arg, applyVars>>

NextLocate == CallLineMatch \/ CallFindAndReplace

SpecLocate == InitLocate /\ [][NextLocate]_vars

(***************************************************************************)
(* Claims about the locator, checked under SpecLocate.                     *)
(***************************************************************************)

\* the lines of the (normalised) content
LinesOf(c) == split(normalize_newlines(c))

\* 0-based starts of the windows of c that equal block line by line once
\* trailing whitespace is removed from the content lines
StartsOf(c, block) ==
    LET lines    == LinesOf(c)
        stripped == [k \in 1..Len(lines) |-> rstrip(lines[k])]
    IN  IF block = <<>> THEN {}
        ELSE { i \in 0..(Len(lines) - Len(block)) :
                 \A j \in 1..Len(block) : stripped[i + j] = block[j] }

\* the block _line_match searches for
SearchedBlock(old) == old_stripped_of(normalize_newlines(old))

\* the start in S closest to hint - 1, the smaller one on a tie
ClosestStart(S, hint) ==
    CHOOSE i \in S : \A k \in S :
        \/ abs(i - (hint - 1)) < abs(k - (hint - 1))
        \/ abs(i - (hint - 1)) = abs(k - (hint - 1)) /\ i <= k

\* C1: among the windows of content that match old_code, _line_match returns
\* the one whose 0-based start is closest to hint_line - 1, and the one with
\* the smaller start when two are equally distant; with no matching window it
\* returns None.
C1_ClosestWindow ==
    pc = "line_match" =>
        LET S == StartsOf(content, SearchedBlock(old_code))
        IN  IF S = {} THEN ret = None
            ELSE ret = <<ClosestStart(S, hint_line), Len(SearchedBlock(old_code))>>

\* two matching windows are equally distant from the hint and the smaller
\* start was returned
C1_Witness ==
    /\ pc = "line_match"
    /\ ret # None
    /\ \E k \in StartsOf(content, SearchedBlock(old_code)) :
          /\ k > ret[1]
          /\ abs(k - (hint_line - 1)) = abs(ret[1] - (hint_line - 1))

\* C2 as stated: when old_code matches at more than one window,
\* _find_and_replace substitutes the window closest to hint_line - 1 and
\* leaves the other lines as they were.
C2_Original ==
    (pc = "find_and_replace"
       /\ Cardinality(StartsOf(content, SearchedBlock(old_code))) > 1) =>
        LET block == SearchedBlock(old_code)
            i     == ClosestStart(StartsOf(content, block), hint_line)
            lines == LinesOf(content)
            new   == split(new_code)
            r     == split(ret[1])
        IN  /\ ret[2]
            /\ Len(r) = Len(lines) - Len(block) + Len(new)
            /\ \A j \in 1..i : r[j] = lines[j]
            /\ \A j \in 1..Len(new) : r[i + j] = new[j]
            /\ \A j \in (i + Len(block) + 1)..Len(lines) :
                  r[j - Len(block) + Len(new)] = lines[j]

\* C2 amended: when old_code does not occur verbatim in the content and more
\* than one window matches it in _line_match's sense, _find_and_replace
\* substitutes the matching window closest to hint_line - 1 (the smaller
\* start on a tie) and leaves every line outside that window as it was.
C2_FuzzyClosest ==
    (pc = "find_and_replace"
       /\ ~ contains(normalize_newlines(content), normalize_newlines(old_code))
       /\ Cardinality(StartsOf(content, SearchedBlock(old_code))) > 1) =>
        LET block == SearchedBlock(old_code)
            i     == ClosestStart(StartsOf(content, block), hint_line)
            lines == LinesOf(content)
            new   == split(new_code)
            r     == split(ret[1])
        IN  /\ ret[2]
            /\ Len(r) = Len(lines) - Len(block) + Len(new)
            /\ \A j \in 1..i : r[j] = lines[j]
            /\ \A j \in 1..Len(new) : r[i + j] = new[j]
            /\ \A j \in (i + Len(block) + 1)..Len(lines) :
                  r[j - Len(block) + Len(new)] = lines[j]

\* no verbatim occurrence, two matching windows, and the later one, nearer
\* to the hint, was the one substituted
C2_Witness ==
    /\ pc = "find_and_replace"
    /\ ~ contains(normalize_newlines(content), normalize_newlines(old_code))
    /\ Cardinality(StartsOf(content, SearchedBlock(old_code))) > 1
    /\ ClosestStart(StartsOf(content, SearchedBlock(old_code)), hint_line) > 0
    /\ ret[2]
    /\ split(ret[1])[1] = LinesOf(content)[1]

\* the lines of old_code with trailing whitespace removed, leading
\* whitespace kept on every line, wholly-blank first and last lines dropped
IndentedBlock(old) ==
    LET ls == split(normalize_newlines(old))
    IN  pop_blank_tail(pop_blank_head([k \in 1..Len(ls) |-> rstrip(ls[k])]))

\* C3: whenever _line_match returns (i, n), each content line i + j equals
\* the j-th line of old_code up to trailing whitespace only: indentation is
\* compared exactly on every line, the first line of old_code included.
C3_IndentationExact ==
    (pc = "line_match" /\ ret # None) =>
        /\ ret[2] = Len(IndentedBlock(old_code))
        /\ \A j \in 1..ret[2] :
              rstrip(LinesOf(content)[ret[1] + j]) = IndentedBlock(old_code)[j]

\* C4: if consecutive lines of content equal the lines of old_code except for
\* trailing whitespace, _find_and_replace returns success, whatever the
\* indentation of the block.
C4_TrailingWhitespaceTolerant ==
    (pc = "find_and_replace"
       /\ StartsOf(content, IndentedBlock(old_code)) # {}) => ret[2]

\* the number of lines of a text; the empty text has none
LineCount(s) == IF s = <<>> THEN 0 ELSE Len(split(s))

\* C9: with an empty replacement a successful _find_and_replace removes
\* exactly the matched lines: the result has as many fewer lines as the
\* matched block had.
C9_DeleteRemovesLines ==
    (pc = "find_and_replace" /\ new_code = <<>> /\ ret[2]
       /\ StartsOf(content, SearchedBlock(old_code)) # {}) =>
        LineCount(ret[1]) = LineCount(normalize_newlines(content))
                               - Len(SearchedBlock(old_code))

\* the 1-based character positions at which sub occurs in s
OccurrencesOf(s, sub) ==
    { i \in 1..(Len(s) - Len(sub) + 1) : SubSeq(s, i, i + Len(sub) - 1) = sub }

\* C11: when old_code occurs verbatim in the content, _find_and_replace
\* reports success and replaces only the first occurrence by the replacement
\* text, whatever the hint: the text before it is unchanged and every
\* occurrence that starts after it is still there, shifted by the change
\* of length.
C11_FirstVerbatimOnly ==
    (pc = "find_and_replace"
       /\ OccurrencesOf(normalize_newlines(content), normalize_newlines(old_code)) # {}) =>
        LET c   == normalize_newlines(content)
            old == normalize_newlines(old_code)
            new == normalize_newlines(new_code)
            occ == OccurrencesOf(c, old)
            i   == Min(occ)
            r   == ret[1]
        IN  /\ ret[2]
            /\ Len(r) = Len(c) - Len(old) + Len(new)
            /\ SubSeq(r, 1, i - 1) = SubSeq(c, 1, i - 1)
            /\ SubSeq(r, i, i + Len(new) - 1) = new
            /\ \A k \in occ : k >= i + Len(old) =>
                  (k - Len(old) + Len(new)) \in OccurrencesOf(r, old)
            /\ \A k \in (i + Len(old))..Len(c) : r[k - Len(old) + Len(new)] = c[k]

\* old_code occurs verbatim on two lines, the hint names the second one, and
\* the first one was replaced while the second one is still there
C11_Witness ==
    /\ pc = "find_and_replace"
    /\ old_code = <<"a">>
    /\ content = <<"a", "\n", "a">>
    /\ hint_line = 2
    /\ new_code = <<"b">>
    /\ ret = << <<"b", "\n", "a">>, TRUE >>

\* C12: when old_code does not occur verbatim and _line_match returns (i, n),
\* the result is the content with exactly the lines i..i+n-1 replaced by the
\* lines of the replacement: it has len(lines) - n + len(replacement lines)
\* lines, and the lines before i and after the window are unchanged.
C12_WindowReplaced ==
    LET m     == _line_match(normalize_newlines(content),
                             normalize_newlines(old_code), hint_line)
        lines == LinesOf(content)
        new   == split(normalize_newlines(new_code))
        r     == split(ret[1])
    IN  (pc = "find_and_replace"
           /\ OccurrencesOf(normalize_newlines(content), normalize_newlines(old_code)) = {}
           /\ m # None) =>
            /\ ret[2]
            /\ Len(r) = Len(lines) - m[2] + Len(new)
            /\ SubSeq(r, 1, m[1]) = SubSeq(lines, 1, m[1])
            /\ SubSeq(r, m[1] + 1, m[1] + Len(new)) = new
            /\ SubSeq(r, m[1] + Len(new) + 1, Len(r))
                  = SubSeq(lines, m[1] + m[2] + 1, Len(lines))

\* a two-line block found only by the fuzzy path, below the first line, was
\* replaced by a block of another length
C12_Witness ==
    /\ pc = "find_and_replace"
    /\ OccurrencesOf(normalize_newlines(content), normalize_newlines(old_code)) = {}
    /\ ret[2]
    /\ _line_match(content, old_code, hint_line) \in { <<1, 2>> }
    /\ Len(split(new_code)) # 2

\* C13: if old_code does not occur verbatim in the content and no window of
\* the content equals old_code up to trailing whitespace, _find_and_replace
\* returns success = false and the content unchanged.
C13_NoMatchNoChange ==
    (pc = "find_and_replace"
       /\ OccurrencesOf(normalize_newlines(content), normalize_newlines(old_code)) = {}
       /\ StartsOf(content, IndentedBlock(old_code)) = {}) =>
        ret = <<normalize_newlines(content), FALSE>>

(***************************************************************************)
(* Specification of the natural-language filter: one call on a string      *)
(* made of optional leading blanks, a head word and a tail.                *)
(***************************************************************************)

\* the fifteen imperative verbs, without the space that follows them
Verbs ==
    { <<"R", "e", "m", "o", "v", "e">>, <<"D", "e", "l", "e", "t", "e">>,
      <<"R", "e", "p", "l", "a", "c", "e">>, <<"U", "p", "d", "a", "t", "e">>,
      <<"C", "h", "a", "n", "g", "e">>, <<"R", "e", "n", "a", "m", "e">>,
      <<"M", "o", "v", "e">>, <<"A", "d", "d">>, <<"E", "n", "s", "u", "r", "e">>,
      <<"C", "o", "n", "s", "i", "d", "e", "r">>,
      <<"R", "e", "f", "a", "c", "t", "o", "r">>, <<"F", "i", "x">>,
      <<"I", "m", "p", "l", "e", "m", "e", "n", "t">>, <<"U", "s", "e">>,
      <<"C", "o", "n", "v", "e", "r", "t">> }

\* the code-signal characters
SignalChars == {"{", "}", "(", ")", ";", "=", "<", ">", "[", "]"}

Leads == { <<>>, <<" ">>, <<OGHAM>> }

Heads == Verbs \cup { v \o <<" ">> : v \in Verbs }
               \cup { <<>>, <<"x">>, <<"f", "i", "x", " ">>, <<"a", "U", "s", "e", " ">> }

Tails == { <<>>, <<"x">>, <<" ">>, <<"x", ".", "y">> } \cup { <<"x", c>> : c \in SignalChars }

NLSamples == { l \o h \o t : l \in Leads, h \in Heads, t \in Tails }

InitNL ==
    /\ pc = "start"
    /\ nl_arg \in NLSamples
    /\ content = <<>>
    /\ old_code = <<>>
    /\ new_code = <<>>
    /\ hint_line = 0
    /\ ret = None
    /\ IdleApply

CallIsNaturalLanguage ==
    /\ pc = "start"
    /\ ret' = _is_natural_language(nl_arg)
    /\ pc' = "is_natural_language"
    /\ UNCHANGED <<content, old_code, new_code, hint_line, nl_arg, applyVars>>

NextNL == CallIsNaturalLanguage

SpecNL == InitNL /\ [][NextNL]_vars

\* C5: _is_natural_language(s) is true exactly when the trimmed s starts with
\* one of the fifteen verbs followed by a space, or s holds none of the
\* code-signal characters.  The call has no side effects: it changes nothing
\* but the value returned; and that value is a function of s alone, so the
\* same input gives the same result.
C5_Classification ==
    [][ pc' = "is_natural_language" =>
          /\ ret' = ( \/ \E v \in Verbs : startswith(strip(nl_arg), v \o <<" ">>)
                      \/ \A i \in 1..Len(nl_arg) : nl_arg[i] \notin SignalChars )
          /\ UNCHANGED <<nl_arg, content, old_code, new_code, hint_line, applyVars>>
      ]_vars

\* a string that holds a code-signal character and is natural language
\* only by its verb prefix has been classified
C5_Witness ==
    /\ pc = "is_natural_language"
    /\ ret = TRUE
    /\ \E i \in 1..Len(nl_arg) : nl_arg[i] \in SignalChars
    /\ startswith(nl_arg, <<" ", "U", "s", "e", " ">>)

(***************************************************************************)
(* Specification of apply_local: one call on a list of findings, a         *)
(* working tree of two paths and an optional file filter.                  *)
(***************************************************************************)

MaxFindings == 2

PathA == <<"A">>

PathB == <<"B">>

Paths == {PathA, PathB}

Finding(file, line, old, sug) ==
    [file |-> file, line |-> line, old_code |-> old, suggestion |-> sug]

F_ == <<"f", "(", ")">>

G_ == <<"g", "(", ")">>

H_ == <<"h", "(", ")">>

K_ == <<"k", "(", ")">>

\* f() twice, around g()
FileA == F_ \o <<"\n">> \o G_ \o <<"\n">> \o F_

FileB == F_

EditSamples ==
    { Finding(PathA, 1, F_, H_),                          \* verbatim
      Finding(PathA, 3, F_, H_ \o <<"\n">> \o H_),        \* one line by two
      Finding(PathA, 2, G_ \o <<" ">>, H_),               \* trailing blank: fuzzy
      Finding(PathA, 1, K_, H_),                          \* not in the file
      Finding(PathA, 1, <<"F", "i", "x", " ">> \o F_, H_),   \* instruction as old_code
      Finding(PathA, 1, F_, <<"U", "s", "e", " ">> \o H_),   \* instruction as suggestion
      Finding(PathA, 1, F_, <<OGHAM, "U", "s", "e", " ">> \o H_),   \* the same, indented
      Finding(PathA, 1, F_, <<>>),                        \* delete
      Finding(PathA, 1, None, H_),                        \* no old_code
      Finding(PathA, 1, <<>>, H_),                        \* empty old_code
      Finding(PathA, 1, F_, None),                        \* no suggestion
      Finding(PathB, 1, F_, H_),
      Finding(PathB, 1, K_, H_) }

FindingLists == UNION { [1..m -> EditSamples] : m \in 0..MaxFindings }

Filters == { None, <<>>, PathA }

Disks == { [p \in Paths |-> IF p = PathA THEN a ELSE b] :
             a \in {None, FileA}, b \in {None, FileB} }

Init ==
    /\ pc = "start"
    /\ findings \in FindingLists
    /\ file_filter \in Filters
    /\ disk \in Disks
    /\ by_file = <<>>
    /\ fi = 0
    /\ todo = <<>>
    /\ file_applied = 0
    /\ applied = 0
    /\ out = <<>>
    /\ calls = <<>>
    /\ writes = <<>>
    /\ checked = <<>>
    /\ file_contents = <<>>
    /\ char_budget = 0
    /\ comment_body = None
    /\ content = <<>>
    /\ old_code = <<>>
    /\ new_code = <<>>
    /\ hint_line = 0
    /\ nl_arg = None
    /\ ret = None

Next ==
    \/ GroupFindings
    \/ SkipMissingFile
    \/ ReadFile
    \/ ApplyEdit
    \/ FinishFile
    \/ ReturnApplied

Spec == Init /\ [][Next]_vars

(***************************************************************************)
(* Claims about apply_local, checked under Spec.                           *)
(***************************************************************************)

\* the edits the spec lets through to the patch applier
Eligible(f) ==
    /\ truthy(f.old_code)
    /\ ~ _is_natural_language(f.old_code)
    /\ ~ _is_natural_language(f.suggestion)

\* C6: apply_local passes an edit to _find_and_replace only if its old_code
\* is non-empty and neither its old_code nor its suggestion is natural
\* language; no other edit gives rise to a call.
C6_OnlyEligibleEditsReachApplier ==
    /\ \A k \in 1..Len(calls) :
          /\ Eligible(calls[k].finding)
          /\ \E j \in 1..Len(findings) : findings[j] = calls[k].finding
    /\ Len(calls) <= Cardinality({ j \in 1..Len(findings) : Eligible(findings[j]) })

\* a batch holding an edit whose old_code is an instruction and an edit that
\* reached the applier has run to its end
C6_Witness ==
    /\ pc = "done"
    /\ Len(calls) = 1
    /\ \E j \in 1..Len(findings) :
          /\ truthy(findings[j].old_code)
          /\ truthy(findings[j].suggestion)
          /\ _is_natural_language(findings[j].old_code)
          /\ ~ _is_natural_language(findings[j].suggestion)

\* the skip reports among the printed lines
SkipReports == { k \in 1..Len(out) :
                   out[k].msg \in {"SKIP (file not found locally)", "SKIP (code not found)"} }

\* C8: every edit apply_local does not apply is reported with a reason; in
\* particular a batch of a single edit whose old_code is natural language
\* applies zero edits and reports exactly one skip.
C8_SingleInstructionEditReportsOneSkip ==
    (pc = "done"
       /\ Len(findings) = 1
       /\ truthy(findings[1].old_code)
       /\ _is_natural_language(findings[1].old_code)) =>
        /\ ret = 0
        /\ Cardinality(SkipReports) = 1

\* C10: an edit with a non-empty old_code that is not natural language and
\* an empty-string suggestion is attempted by apply_local when its file
\* exists and passes the filter.
C10_DeleteEditAttempted ==
    pc = "done" =>
        \A j \in 1..Len(findings) :
            ( /\ findings[j].suggestion = <<>>
              /\ truthy(findings[j].old_code)
              /\ ~ _is_natural_language(findings[j].old_code)
              /\ (truthy(file_filter) => findings[j].file = file_filter)
              /\ disk[findings[j].file] # None ) =>
                \E k \in 1..Len(calls) : calls[k].finding = findings[j]

\* the calls of _find_and_replace made for the file p, and the successful ones
CallsOf(p) == { k \in 1..Len(calls) : calls[k].finding.file = p }

OkCallsOf(p) == { k \in CallsOf(p) : calls[k].ok }

\* C14: within one file, apply_local calls _find_and_replace in non-increasing
\* order of hint line, and every call after the first is made on the content
\* the previous call returned, not on the content read from the file; the
\* first call is made on the normalised content of the file.
C14_DescendingOnMutatedContent ==
    \A k \in 1..Len(calls) :
        LET f == calls[k].finding
        IN  IF k = 1 \/ calls[k - 1].finding.file # f.file
            THEN (pc = "edits" /\ by_file[fi][1] = f.file) =>
                     calls[k].content = normalize_newlines(universal_newlines(disk[f.file]))
            ELSE LET g == calls[k - 1].finding
                 IN  /\ f.line <= g.line
                     /\ calls[k].content =
                          _find_and_replace(calls[k - 1].content, g.old_code,
                                            g.suggestion, g.line)[1]

\* two edits of one file, given lowest line first, were both applied: the
\* higher line first, the lower one on the content the first edit produced
C14_Witness ==
    /\ pc = "done"
    /\ Len(findings) = 2
    /\ findings[1].line < findings[2].line
    /\ Len(calls) = 2
    /\ calls[1].finding = findings[2]
    /\ calls[2].finding = findings[1]
    /\ calls[1].ok /\ calls[2].ok
    /\ calls[2].content # calls[1].content

\* C15: during the pass over one file, for every edit not yet applied whose
\* hint line is lower than that of the edit just processed, the hint line
\* denotes the same text in the current content as in the file read.
C15_PendingHintsStable ==
    (pc = "edits" /\ calls # <<>> /\ calls[Len(calls)].finding.file = by_file[fi][1]) =>
        LET orig == LinesOf(disk[by_file[fi][1]])
            cur  == split(content)
            last == calls[Len(calls)].finding
        IN  \A k \in 1..Len(todo) :
                (todo[k].line < last.line /\ todo[k].line \in 1..Len(orig)) =>
                    /\ todo[k].line <= Len(cur)
                    /\ cur[todo[k].line] = orig[todo[k].line]

\* C18: apply_local writes a file only if one of that file's edits succeeded;
\* a file all of whose edits failed to match is not written and its content
\* on disk is the content that was read.
C18_WrittenOnlyAfterSuccess ==
    /\ \A w \in 1..Len(writes) : OkCallsOf(writes[w]) # {}
    /\ \A p \in Paths :
          (CallsOf(p) # {} /\ OkCallsOf(p) = {}) =>
              /\ \A w \in 1..Len(writes) : writes[w] # p
              /\ disk[p] # None
              /\ normalize_newlines(universal_newlines(disk[p])) = calls[Min(CallsOf(p))].content

\* a call in which every edit of one file failed and the other file was written
C18_Witness ==
    /\ pc = "done"
    /\ CallsOf(PathA) # {}
    /\ OkCallsOf(PathA) = {}
    /\ writes = <<PathB>>
    /\ disk[PathA] = FileA

\* the edits apply_local has to attempt: eligible, passing the filter, in a
\* file that exists
Attemptable == { j \in 1..Len(findings) :
                   /\ Eligible(findings[j])
                   /\ (truthy(file_filter) => findings[j].file = file_filter)
                   /\ disk[findings[j].file] # None }

\* C20: whatever happens to the other files, every eligible edit of a file
\* that exists is attempted, once, and apply_local returns the number of
\* edits for which _find_and_replace returned success, over all files.
C20_FilesIndependent ==
    pc = "done" =>
        /\ \A j \in Attemptable : \E k \in 1..Len(calls) : calls[k].finding = findings[j]
        /\ Len(calls) = Cardinality(Attemptable)
        /\ \A k \in 1..Len(calls) :
              calls[k].ok = _find_and_replace(calls[k].content, calls[k].finding.old_code,
                                              calls[k].finding.suggestion,
                                              calls[k].finding.line)[2]
        /\ ret = Cardinality(OkCallsOf(PathA)) + Cardinality(OkCallsOf(PathB))

\* file A comes first and fails (its edit does not match, or the file is
\* missing), and the edit of file B was applied and counted
C20_Witness ==
    /\ pc = "done"
    /\ Len(findings) = 2
    /\ findings[1].file = PathA
    /\ findings[2].file = PathB
    /\ Eligible(findings[1])
    /\ OkCallsOf(PathA) = {}
    /\ OkCallsOf(PathB) # {}
    /\ disk[PathB] = H_
    /\ ret = 1

\* the 'file not found' lines printed for the file p
MissingReports(p) == { k \in 1..Len(out) : out[k] = SkipFileMsg(p) }

\* C21: for a file that does not exist, apply_local attempts none of its
\* edits, does not create it and never writes it, reports the skip once
\* when the file has eligible edits (and not at all otherwise), counts
\* nothing for it, and goes on to the other files.
C21_MissingFileSkippedOnce ==
    \A p \in Paths :
        /\ MissingReports(p) # {} => disk[p] = None
        /\ disk[p] = None =>
              /\ CallsOf(p) = {}
              /\ \A w \in 1..Len(writes) : writes[w] # p
              /\ Cardinality(MissingReports(p)) <= 1
              /\ pc = "done" =>
                    /\ Cardinality(MissingReports(p))
                          = IF \E k \in 1..Len(by_file) : by_file[k][1] = p THEN 1 ELSE 0
                    /\ \A q \in Paths \ {p} :
                          /\ ret = Cardinality(OkCallsOf(q))
                          /\ Cardinality(CallsOf(q))
                                = Cardinality({ j \in Attemptable : findings[j].file = q })

\* file A is missing and has two eligible edits: one report, no call, and
\* nothing on disk
C21_Witness ==
    /\ pc = "done"
    /\ Len(findings) = 2
    /\ \A j \in 1..2 : findings[j].file = PathA /\ Eligible(findings[j])
    /\ disk[PathA] = None
    /\ out = <<SkipFileMsg(PathA)>>
    /\ calls = <<>>
    /\ ret = 0

\* C24: with a file_filter only the edits of that file are grouped and
\* attempted, no other file is written or changed, and the count returned is
\* that file's; with no filter (None or '') the eligible edits of every
\* file that exists are attempted.
C24_FileFilter ==
    /\ truthy(file_filter) =>
          /\ \A k \in 1..Len(by_file) : by_file[k][1] = file_filter
          /\ \A k \in 1..Len(calls) : calls[k].finding.file = file_filter
          /\ \A w \in 1..Len(writes) : writes[w] = file_filter
          /\ \A p \in Paths \ {file_filter} : disk[p] \in {None, FileA, FileB}
          /\ pc = "done" => ret = Cardinality(OkCallsOf(file_filter))
    /\ pc = "done" =>
          \A j \in 1..Len(findings) :
              ( /\ Eligible(findings[j])
                /\ disk[findings[j].file] # None
                /\ (~ truthy(file_filter) \/ findings[j].file = file_filter) ) =>
                  \E k \in 1..Len(calls) : calls[k].finding = findings[j]

\* filter A, an edit of B that would apply and an edit of A that did: B is
\* as it was and one edit is counted
C24_Witness ==
    /\ pc = "done"
    /\ file_filter = PathA
    /\ findings = << Finding(PathB, 1, F_, H_), Finding(PathA, 1, F_, H_) >>
    /\ disk[PathB] = FileB
    /\ disk[PathA] = H_ \o <<"\n">> \o G_ \o <<"\n">> \o F_
    /\ Len(calls) = 1
    /\ ret = 1

(***************************************************************************)
(* Specification of apply_local on a working tree whose paths may hold a   *)
(* directory, an unreadable file, bytes that are not UTF-8, or a file with *)
(* carriage returns.                                                       *)
(***************************************************************************)

\* f(), g(), f() with a CRLF and a lone CR
FileCR == F_ \o <<"\r", "\n">> \o G_ \o <<"\r">> \o F_

FileBadUtf8 == F_ \o <<InvalidByte>>

FaultSamples ==
    { Finding(PathA, 1, F_, H_),
      Finding(PathA, 3, F_ \o <<"\r", "\n">>, H_),
      Finding(PathA, 1, K_, H_),
      Finding(PathB, 1, F_, H_) }

FaultFindingLists == UNION { [1..m -> FaultSamples] : m \in 0..MaxFindings }

FaultDisks == { [p \in Paths |-> IF p = PathA THEN a ELSE b] :
                  a \in {None, FileA, FileCR, Directory, Unreadable, FileBadUtf8},
                  b \in {None, FileB, Directory} }

InitFault ==
    /\ pc = "start"
    /\ findings \in FaultFindingLists
    /\ file_filter = None
    /\ disk \in FaultDisks
    /\ by_file = <<>>
    /\ fi = 0
    /\ todo = <<>>
    /\ file_applied = 0
    /\ applied = 0
    /\ out = <<>>
    /\ calls = <<>>
    /\ writes = <<>>
    /\ checked = <<>>
    /\ file_contents = <<>>
    /\ char_budget = 0
    /\ comment_body = None
    /\ content = <<>>
    /\ old_code = <<>>
    /\ new_code = <<>>
    /\ hint_line = 0
    /\ nl_arg = None
    /\ ret = None

NextFault == Next \/ OpenRaises

SpecFault == InitFault /\ [][NextFault]_vars

\* C22: apply_local has no fatal error path: whatever the paths hold, it
\* never raises and it ends by returning a count.
C22_NoFatalErrorPath ==
    /\ pc # "raised"
    /\ pc = "done" => ret \in Nat

\* the state of the k-th file of the grouped batch: pending until the loop
\* reaches it, attempted while the loop is on it, then written or
\* skipped-no-changes
FileState(k) ==
    IF k < fi
    THEN IF \E w \in 1..Len(writes) : writes[w] = by_file[k][1]
         THEN "written" ELSE "skipped-no-changes"
    ELSE IF k = fi /\ pc \in {"edits", "raised"} THEN "attempted"
    ELSE "pending"

\* C23: no file is in the grouped batch twice and none is written twice, no
\* edit is tried more often than it is given, a file that has left the loop
\* is written if and only if one of its edits succeeded, and apply_local
\* stops only when every file of the batch has reached written or
\* skipped-no-changes.
C23_PerFileStateMachine ==
    /\ \A j, k \in 1..Len(by_file) : by_file[j][1] = by_file[k][1] => j = k
    /\ \A v, w \in 1..Len(writes) : writes[v] = writes[w] => v = w
    /\ \A j \in 1..Len(findings) :
          Cardinality({ k \in 1..Len(calls) : calls[k].finding = findings[j] })
              <= Cardinality({ i \in 1..Len(findings) : findings[i] = findings[j] })
    /\ \A k \in 1..Len(by_file) :
          FileState(k) = "written" <=> (k < fi /\ OkCallsOf(by_file[k][1]) # {})
    /\ pc \in {"done", "raised"} =>
          \A k \in 1..Len(by_file) : FileState(k) \in {"written", "skipped-no-changes"}

(***************************************************************************)
(* Specification of one pass of apply_local over a file whose blocks each  *)
(* occur once: the same call as Spec, on edits that meet each other.       *)
(***************************************************************************)

\* f(), g() and k(), once each
FileC == F_ \o <<"\n">> \o G_ \o <<"\n">> \o K_

PassSamples ==
    { Finding(PathA, 1, F_, H_ \o <<"\n">> \o H_),        \* line 1 by two lines
      Finding(PathA, 2, G_, H_ \o <<"\n">> \o H_),        \* line 2 by two lines
      Finding(PathA, 3, K_, H_ \o <<"\n">> \o H_),        \* line 3 by two lines
      Finding(PathA, 2, G_ \o <<" ">>, H_),               \* trailing blank: fuzzy
      Finding(PathA, 1, H_, K_),                          \* old_code another edit writes
      Finding(PathA, 1, K_, H_ \o <<"\n">> \o H_),        \* the block of line 3, hinted at 1
      Finding(PathA, 3, F_, K_ \o <<"\n">> \o G_) }        \* the block of line 1, hinted at 3

PassFindingLists == UNION { [1..m -> PassSamples] : m \in 0..MaxFindings }

InitPass ==
    /\ pc = "start"
    /\ findings \in PassFindingLists
    /\ file_filter \in { None, PathA }
    /\ disk \in { [p \in Paths |-> IF p = PathA THEN a ELSE None] : a \in {None, FileC} }
    /\ by_file = <<>>
    /\ fi = 0
    /\ todo = <<>>
    /\ file_applied = 0
    /\ applied = 0
    /\ out = <<>>
    /\ calls = <<>>
    /\ writes = <<>>
    /\ checked = <<>>
    /\ file_contents = <<>>
    /\ char_budget = 0
    /\ comment_body = None
    /\ content = <<>>
    /\ old_code = <<>>
    /\ new_code = <<>>
    /\ hint_line = 0
    /\ nl_arg = None
    /\ ret = None

SpecPass == InitPass /\ [][Next]_vars

\* the 1-based position of the first character of line h of lines
LineStart(lines, h) ==
    IF h = 1 THEN 1 ELSE Len(join(SubSeq(lines, 1, h - 1))) + 2

\* <<start, length>> of the text of c that _find_and_replace(c, old, _, hint)
\* matches; <<0, 0>> when it matches nothing
MatchedSpan(c, old, hint) ==
    LET o == normalize_newlines(old)
        m == _line_match(c, o, hint)
    IN  IF contains(c, o) THEN <<find(c, o), Len(o)>>
        ELSE IF m = None THEN <<0, 0>>
        ELSE <<LineStart(split(c), m[1] + 1),
               Len(join(SubSeq(split(c), m[1] + 1, m[1] + m[2])))>>

\* <<start, length>> of the replacement in the content the call returns
ReplacedSpan(c, old, new, hint) ==
    <<MatchedSpan(c, old, hint)[1], Len(normalize_newlines(new))>>

\* the span s lies inside the span r
Inside(s, r) == s[2] > 0 /\ s[1] >= r[1] /\ s[1] + s[2] <= r[1] + r[2]

\* C16: in one pass over one file no edit is applied more often than it is
\* given, and an edit never matches text lying inside the region the edit
\* applied just before it has written.
C16_ReplacedRegionNotRematched ==
    /\ \A j \in 1..Len(findings) :
          Cardinality({ k \in 1..Len(calls) : calls[k].finding = findings[j] })
              <= Cardinality({ i \in 1..Len(findings) : findings[i] = findings[j] })
    /\ \A k \in 2..Len(calls) :
          LET e == calls[k - 1]
              l == calls[k]
          IN  (e.finding.file = l.finding.file /\ e.ok /\ l.ok) =>
                  ~ Inside(MatchedSpan(l.content, l.finding.old_code, l.finding.line),
                           ReplacedSpan(e.content, e.finding.old_code,
                                        e.finding.suggestion, e.finding.line))

\* the position of the only occurrence of the edit's old_code in c
OnlyOccurrence(c, f) == CHOOSE p \in OccurrencesOf(c, f.old_code) : TRUE

\* c with the block at p replaced by new_x and the block at q > p by new_y
BothReplaced(c, p, old_x, new_x, q, old_y, new_y) ==
    SubSeq(c, 1, p - 1) \o new_x
    \o SubSeq(c, p + Len(old_x), q - 1) \o new_y
    \o SubSeq(c, q + Len(old_y), Len(c))

\* C17: two eligible edits of one file, at different hint lines, whose blocks
\* each occur exactly once in the file and do not overlap, and whose
\* suggestions have another number of lines than the blocks: both are
\* applied, the higher line first, the file ends as the content read with
\* each block replaced by its own suggestion, and the lower-line edit is
\* matched verbatim at the text its block had in the content read.
C17_TwoEditsBothLand ==
    (pc = "done" /\ Len(findings) = 2 /\ disk[PathA] # None) =>
        \A a, b \in 1..2 :
            LET lo   == findings[a]
                hi   == findings[b]
                p_lo == OnlyOccurrence(FileC, lo)
                p_hi == OnlyOccurrence(FileC, hi)
            IN  ( /\ lo.file = PathA /\ hi.file = PathA
                  /\ lo.line < hi.line
                  /\ Eligible(lo) /\ Eligible(hi)
                  /\ Cardinality(OccurrencesOf(FileC, lo.old_code)) = 1
                  /\ Cardinality(OccurrencesOf(FileC, hi.old_code)) = 1
                  /\ \/ p_lo + Len(lo.old_code) <= p_hi
                     \/ p_hi + Len(hi.old_code) <= p_lo
                  /\ Len(split(lo.suggestion)) # Len(split(lo.old_code))
                  /\ Len(split(hi.suggestion)) # Len(split(hi.old_code)) ) =>
                    /\ ret = 2
                    /\ Len(calls) = 2
                    /\ calls[1].finding = hi /\ calls[1].ok
                    /\ calls[2].finding = lo /\ calls[2].ok
                    /\ find(calls[2].content, lo.old_code)
                          = IF p_hi < p_lo
                            THEN p_lo + Len(hi.suggestion) - Len(hi.old_code)
                            ELSE p_lo
                    /\ disk[PathA]
                          = IF p_lo < p_hi
                            THEN BothReplaced(FileC, p_lo, lo.old_code, lo.suggestion,
                                              p_hi, hi.old_code, hi.suggestion)
                            ELSE BothReplaced(FileC, p_hi, hi.old_code, hi.suggestion,
                                              p_lo, lo.old_code, lo.suggestion)

(***************************************************************************)
(* Further claims about the locator, checked under SpecLocate.             *)
(***************************************************************************)

\* C25: a successful _find_and_replace on LF-normalised content changes only
\* the matched region: the text before it and the text after it are the
\* same in the content and in the result, trailing whitespace of the lines
\* outside the window included.
C25_OnlyMatchedRegionChanges ==
    (pc = "find_and_replace" /\ ret[2] /\ normalize_newlines(content) = content) =>
        LET span == MatchedSpan(content, old_code, hint_line)
            new  == normalize_newlines(new_code)
            r    == ret[1]
        IN  /\ span[1] >= 1
            /\ Len(r) = Len(content) - span[2] + Len(new)
            /\ SubSeq(r, 1, span[1] - 1) = SubSeq(content, 1, span[1] - 1)
            /\ SubSeq(r, span[1], span[1] + Len(new) - 1) = new
            /\ SubSeq(r, span[1] + Len(new), Len(r))
                  = SubSeq(content, span[1] + span[2], Len(content))

\* the fuzzy path replaced a window below a line that ends in a blank, and
\* the line is in the result with its blank
C25_Witness ==
    /\ pc = "find_and_replace"
    /\ ret[2]
    /\ ~ contains(content, old_code)
    /\ LET m == _line_match(content, old_code, hint_line)
       IN  /\ m # None
           /\ \E k \in 1..m[1] :
                 /\ rstrip(split(content)[k]) # split(content)[k]
                 /\ rstrip(split(content)[k]) # <<>>
                 /\ split(ret[1])[k] = split(content)[k]

(***************************************************************************)
(* Specification of the locator on blocks with blank lines at their ends   *)
(* and inside: the calls of SpecLocate on other inputs.                    *)
(***************************************************************************)

MaxTrimLines == 4

\* every text of 1..k lines taken from vocab
TextsOver(vocab, k) == UNION { { join(ls) : ls \in [1..m -> vocab] } : m \in 1..k }

\* blocks of plain, empty and whitespace-only lines
TrimOldCodes == TextsOver({ <<"a">>, <<>>, <<" ">> }, MaxTrimLines)

TrimContents == TextsOver({ <<"a">>, <<>> }, MaxTrimLines)

InitTrim ==
    /\ pc = "start"
    /\ content \in TrimContents
    /\ old_code \in TrimOldCodes
    /\ new_code = <<>>
    /\ hint_line = 0
    /\ nl_arg = None
    /\ ret = None
    /\ IdleApply

SpecTrim == InitTrim /\ [][NextLocate]_vars

\* C26: _line_match ignores the wholly-blank lines at the start and at the
\* end of old_code and keeps the blank lines inside: the window it returns
\* has as many lines as there are from the first to the last non-blank line
\* of old_code, and matches them line by line, blank for blank; a window
\* that matches is found; with no non-blank line in old_code it returns None.
C26_BlankEndsTrimmed ==
    pc = "line_match" =>
        LET ol       == split(old_code)
            nonblank == { k \in 1..Len(ol) : strip(ol[k]) # <<>> }
            first    == Min(nonblank)
            n        == Max(nonblank) - first + 1
            lines    == split(content)
            Rest(i)  == \A j \in 2..n : rstrip(lines[i + j]) = rstrip(ol[first + j - 1])
        IN  IF nonblank = {} THEN ret = None
            ELSE /\ ret # None =>
                      /\ ret[2] = n
                      /\ ret[1] \in 0..(Len(lines) - n)
                      /\ strip(lines[ret[1] + 1]) = strip(ol[first])
                      /\ Rest(ret[1])
                 /\ ret = None =>
                      \A i \in 0..(Len(lines) - n) :
                          ~ (rstrip(lines[i + 1]) = strip(ol[first]) /\ Rest(i))

\* a block with a blank first line and a blank line inside was matched as a
\* window of three lines
C26_Witness ==
    /\ pc = "line_match"
    /\ old_code = <<"\n", "a", "\n", "\n", "a">>
    /\ content = <<"a", "\n", "a", "\n", "\n", "a">>
    /\ ret = <<1, 3>>

\* C27: when old_code is empty or holds only whitespace and blank lines,
\* _find_and_replace reports no success and returns the content unchanged.
C27_BlankOldCodeNeverApplied ==
    (pc = "find_and_replace" /\ strip(old_code) = <<>>) =>
        ret = <<normalize_newlines(content), FALSE>>

(***************************************************************************)
(* The line-number apply paths: apply_local of scripts/cli.py and          *)
(* FixApplier._apply_suggestions of scripts/apply_fixes.py.  Both replace  *)
(* the line a finding names by its suggestion.  disk is the working tree   *)
(* (local) or the PR branch (remote); writes lists the files written or    *)
(* committed; calls lists the line assignments made.                       *)
(***************************************************************************)

\* fh.readlines(): the lines of the file, each with its '\n'
RECURSIVE readlines(_)
readlines(s) ==
    LET i == find(s, <<"\n">>)
    IN  IF s = <<>> THEN <<>>
        ELSE IF i = 0 THEN <<s>>
        ELSE <<SubSeq(s, 1, i)>> \o readlines(SubSeq(s, i + 1, Len(s)))

\* the line boundaries of str.splitlines: every one that a string of this
\* module can hold (U+2028 and U+2029 are rejected inside a string)
LineBreaks == {"\n", "\r", "\f", VT, FS, GS, RS, NEL}

\* s.splitlines(True): line ends kept, '\r\n' one boundary
RECURSIVE splitlines_keepends(_)
splitlines_keepends(s) ==
    LET at == {i \in 1..Len(s) : s[i] \in LineBreaks}
        i  == Min(at)
        e  == IF s[i] = "\r" /\ i < Len(s) /\ s[i + 1] = "\n" THEN i + 1 ELSE i
    IN  IF s = <<>> THEN <<>>
        ELSE IF at = {} THEN <<s>>
        ELSE <<SubSeq(s, 1, e)>> \o splitlines_keepends(SubSeq(s, e + 1, Len(s)))

\* "".join(lines) / fh.writelines(lines)
RECURSIVE concat(_)
concat(lines) ==
    IF lines = <<>> THEN <<>> ELSE Head(lines) \o concat(Tail(lines))

\* the two tests of the grouping loop of scripts/cli.py apply_local
scripts_groupable(f, filter) ==
    IF ~ truthy(f.suggestion) THEN FALSE
    ELSE IF truthy(filter) /\ f.file # filter THEN FALSE
    ELSE TRUE

RECURSIVE scripts_group_findings(_, _, _, _)
scripts_group_findings(fs, filter, k, groups) ==
    IF k > Len(fs) THEN groups
    ELSE scripts_group_findings(fs, filter, k + 1,
                                IF scripts_groupable(fs[k], filter)
                                THEN setdefault_append(groups, fs[k])
                                ELSE groups)

\* if 0 <= line_idx < len(lines)
line_in_range(f, lines) == 0 <= f.line - 1 /\ f.line - 1 < Len(lines)

\* the loop over one file's sorted findings: lines[line_idx] = suggestion + "\n"
RECURSIVE set_lines(_, _)
set_lines(lines, fs) ==
    IF fs = <<>> THEN lines
    ELSE set_lines(IF line_in_range(Head(fs), lines)
                   THEN [lines EXCEPT ![Head(fs).line] = Head(fs).suggestion \o <<"\n">>]
                   ELSE lines,
                   Tail(fs))

\* the findings of fs that the loop assigned, in order
assigned(lines, fs) ==
    SelectSeq(fs, LAMBDA f : line_in_range(f, lines))

\* the loop over by_file of scripts/cli.py apply_local from entry k on;
\* st is [disk, applied, out, calls, writes]
RECURSIVE scripts_files(_, _, _)
scripts_files(groups, k, st) ==
    IF k > Len(groups) THEN st
    ELSE LET filepath == groups[k][1]
             sorted   == sorted_by_line_desc(groups[k][2])
             lines    == readlines(universal_newlines(st.disk[filepath]))
         IN  IF st.disk[filepath] = None
             THEN scripts_files(groups, k + 1,
                      [st EXCEPT !.out = Append(@, SkipFileMsg(filepath))])
             ELSE scripts_files(groups, k + 1,
                      [disk    |-> [st.disk EXCEPT ![filepath] = concat(set_lines(lines, sorted))],
                       applied |-> st.applied + Len(assigned(lines, sorted)),
                       out     |-> Append(st.out, AppliedMsg(Len(groups[k][2]), filepath)),
                       calls   |-> st.calls \o assigned(lines, sorted),
                       writes  |-> Append(st.writes, filepath)])

\* scripts/cli.py apply_local, from call to return
ScriptsApplyLocal ==
    /\ pc = "start"
    /\ LET groups == scripts_group_findings(findings, file_filter, 1, <<>>)
           st == scripts_files(groups, 1,
                     [disk |-> disk, applied |-> 0, out |-> <<>>, calls |-> <<>>,
                      writes |-> <<>>])
       IN  /\ by_file' = groups
           /\ IF groups = <<>>
              THEN /\ out' = <<NoApplicableMsg>>
                   /\ ret' = 0
                   /\ UNCHANGED <<disk, applied, calls, writes>>
              ELSE /\ disk' = st.disk
                   /\ applied' = st.applied
                   /\ out' = st.out
                   /\ calls' = st.calls
                   /\ writes' = st.writes
                   /\ ret' = st.applied
    /\ pc' = "scripts_apply_local"
    /\ UNCHANGED <<content, locatorVars, findings, file_filter, fi, todo, file_applied>>

\* suggestions grouped by file, no filter
RECURSIVE remote_group(_, _, _)
remote_group(fs, k, groups) ==
    IF k > Len(fs) THEN groups
    ELSE remote_group(fs, k + 1, setdefault_append(groups, fs[k]))

FailedMsg(filepath) == [msg |-> "Failed to apply fixes", file |-> filepath, line |-> 0, n |-> 0]

\* the loop over by_file of _apply_suggestions from entry k on; get_contents
\* raises for a missing path, update_file raises for the paths in failing;
\* st is [disk, out, calls, writes]
RECURSIVE remote_files(_, _, _, _)
remote_files(groups, k, failing, st) ==
    IF k > Len(groups) THEN st
    ELSE LET filepath == groups[k][1]
             sorted   == sorted_by_line_desc(groups[k][2])
             lines    == splitlines_keepends(st.disk[filepath])
         IN  IF st.disk[filepath] = None \/ filepath \in failing
             THEN remote_files(groups, k + 1, failing,
                      [st EXCEPT !.out = Append(@, FailedMsg(filepath))])
             ELSE remote_files(groups, k + 1, failing,
                      [disk   |-> [st.disk EXCEPT ![filepath] = concat(set_lines(lines, sorted))],
                       out    |-> st.out,
                       calls  |-> st.calls \o assigned(lines, sorted),
                       writes |-> Append(st.writes, filepath)])

\* FixApplier._apply_suggestions, from call to return; the suggestions come
\* from review comments and carry no old_code
ApplySuggestions ==
    /\ pc = "start"
    /\ \A k \in 1..Len(findings) :
          findings[k].old_code = None /\ findings[k].suggestion # None
    /\ \E failing \in SUBSET Paths :
          LET groups == remote_group(findings, 1, <<>>)
              st == remote_files(groups, 1, failing,
                        [disk |-> disk, out |-> <<>>, calls |-> <<>>, writes |-> <<>>])
          IN  /\ by_file' = groups
              /\ disk' = st.disk
              /\ out' = st.out
              /\ calls' = st.calls
              /\ writes' = st.writes
    /\ pc' = "_apply_suggestions"
    /\ UNCHANGED <<content, locatorVars, ret, findings, file_filter, fi, todo,
                   file_applied, applied>>

LineSamples ==
    { Finding(PathA, 1, F_, H_),
      Finding(PathA, 2, None, H_),
      Finding(PathA, 3, None, <<>>),
      Finding(PathA, 5, None, H_),                          \* past the last line
      Finding(PathA, 1, <<"F", "i", "x", " ">> \o F_, H_),  \* instruction as old_code
      Finding(PathA, 1, F_, None),                          \* no suggestion
      Finding(PathB, 1, None, H_) }

LineFindingLists == UNION { [1..m -> LineSamples] : m \in 0..MaxFindings }

InitLine ==
    /\ pc = "start"
    /\ findings \in LineFindingLists
    /\ file_filter \in Filters
    /\ disk \in Disks
    /\ by_file = <<>>
    /\ fi = 0
    /\ todo = <<>>
    /\ file_applied = 0
    /\ applied = 0
    /\ out = <<>>
    /\ calls = <<>>
    /\ writes = <<>>
    /\ checked = <<>>
    /\ file_contents = <<>>
    /\ char_budget = 0
    /\ comment_body = None
    /\ content = <<>>
    /\ old_code = <<>>
    /\ new_code = <<>>
    /\ hint_line = 0
    /\ nl_arg = None
    /\ ret = None

NextLine == ScriptsApplyLocal \/ ApplySuggestions

SpecLine == InitLine /\ [][NextLine]_vars

\* C7: on the remote path and on the scripts/cli.py local path, no
\* suggestion is written into a file when the edit's old_code is absent or
\* is natural language.
C7_InstructionNeverWritten ==
    pc \in {"scripts_apply_local", "_apply_suggestions"} =>
        \A k \in 1..Len(calls) :
            (\E w \in 1..Len(writes) : writes[w] = calls[k].file) =>
                /\ truthy(calls[k].old_code)
                /\ ~ _is_natural_language(calls[k].old_code)

\* C19: _apply_suggestions commits (repo.update_file) no file in which it
\* applied no suggestion, as when every suggestion's line lies outside the
\* file.
C19_NoCommitWithoutAppliedSuggestion ==
    pc = "_apply_suggestions" =>
        \A w \in 1..Len(writes) :
            \E k \in 1..Len(calls) : calls[k].file = writes[w]

(***************************************************************************)
(* The /boomAI commands of FixApplier: apply_all, apply_file and           *)
(* apply_batch.  findings holds the pending suggestions, in the order of   *)
(* get_pending_suggestions; file_filter is the filename of apply_file;     *)
(* checked holds the numbers the regular expression of apply_batch found   *)
(* in the comment; todo is the list handed to _apply_suggestions; out is   *)
(* the comments posted on the pull request.                                *)
(***************************************************************************)

\* a comment posted with pr.create_issue_comment
Comment(text, filename, n) == [msg |-> text, file |-> filename, line |-> 0, n |-> n]

\* _apply_suggestions(fs) on the branch d when update_file raises for failing
apply_suggestions(fs, failing, d) ==
    remote_files(remote_group(fs, 1, <<>>), 1, failing,
                 [disk |-> d, out |-> <<>>, calls |-> <<>>, writes |-> <<>>])

\* seq[idx] of a Python list, idx >= -len(seq)
py_index(seq, idx) == IF idx >= 0 THEN seq[idx + 1] ELSE seq[Len(seq) + idx + 1]

\* the test of the list comprehension of apply_batch
batch_test(i, all_suggestions) == i - 1 < Len(all_suggestions)

\* [all_suggestions[int(i) - 1] for i in checked if int(i) - 1 < len(all_suggestions)]
RECURSIVE selected_of(_, _)
selected_of(chk, all_suggestions) ==
    IF chk = <<>> THEN <<>>
    ELSE IF batch_test(Head(chk), all_suggestions)
         THEN <<py_index(all_suggestions, Head(chk) - 1)>>
              \o selected_of(Tail(chk), all_suggestions)
         ELSE selected_of(Tail(chk), all_suggestions)

\* the comprehension raises IndexError: index -1 of an empty list
selection_raises(chk, all_suggestions) ==
    \E k \in 1..Len(chk) :
        batch_test(chk[k], all_suggestions) /\ chk[k] - 1 < -Len(all_suggestions)

\* _apply_suggestions(fs), then the comment announcing the result
ApplyAndAnnounce(fs, text, filename) ==
    \E failing \in SUBSET Paths :
        LET st == apply_suggestions(fs, failing, disk)
        IN  /\ by_file' = remote_group(fs, 1, <<>>)
            /\ disk' = st.disk
            /\ calls' = st.calls
            /\ writes' = st.writes
            /\ out' = Append(st.out, Comment(text, filename, Len(fs)))

\* FixApplier.apply_all
ApplyAll ==
    /\ pc = "start"
    /\ todo' = findings
    /\ IF findings = <<>>
       THEN /\ out' = <<Comment("No pending suggestions to apply.", None, 0)>>
            /\ UNCHANGED <<by_file, disk, calls, writes>>
       ELSE ApplyAndAnnounce(findings, "Applied suggestion(s).", None)
    /\ pc' = "apply_all"
    /\ UNCHANGED <<content, locatorVars, ret, findings, file_filter, fi,
                   file_applied, applied>>

\* FixApplier.apply_file(filename)
apply_file(filename) ==
    /\ LET file_suggestions == SelectSeq(findings, LAMBDA x : x.file = filename)
       IN  /\ todo' = file_suggestions
           /\ IF file_suggestions = <<>>
              THEN /\ out' = <<Comment("No pending suggestions for file.", filename, 0)>>
                   /\ UNCHANGED <<by_file, disk, calls, writes>>
              ELSE ApplyAndAnnounce(file_suggestions, "Applied suggestion(s) for file.",
                                    filename)
    /\ pc' = "apply_file"
    /\ UNCHANGED <<content, locatorVars, ret, findings, file_filter, fi,
                   file_applied, applied>>

\* apply_file called with the filename held by file_filter
ApplyFile ==
    /\ pc = "start"
    /\ apply_file(file_filter)

\* FixApplier.apply_batch(comment_body); checked holds what re.findall finds
ApplyBatch ==
    /\ pc = "start"
    /\ IF checked = <<>>
       THEN /\ out' = <<Comment("No fixes selected.", None, 0)>>
            /\ pc' = "apply_batch"
            /\ UNCHANGED <<by_file, disk, calls, writes, todo, ret>>
       ELSE IF selection_raises(checked, findings)
       THEN /\ ret' = <<"IndexError">>
            /\ pc' = "raised"
            /\ UNCHANGED <<by_file, disk, calls, writes, todo, out>>
       ELSE LET selected == selected_of(checked, findings)
            IN  /\ todo' = selected
                /\ pc' = "apply_batch"
                /\ ret' = ret
                /\ IF selected = <<>>
                   THEN /\ out' = <<Comment("Selected fix numbers are out of range.", None, 0)>>
                        /\ UNCHANGED <<by_file, disk, calls, writes>>
                   ELSE ApplyAndAnnounce(selected, "Applied selected suggestion(s).", None)
    /\ UNCHANGED <<content, locatorVars, findings, file_filter, fi,
                   file_applied, applied>>

\* the commands handle_command knows
CmdApplyAll == <<"/", "b", "o", "o", "m", "A", "I", " ", "a", "p", "p", "l", "y", "-", "a", "l", "l">>

CmdApplyFile == <<"/", "b", "o", "o", "m", "A", "I", " ", "a", "p", "p", "l", "y", "-", "f", "i", "l", "e">>

CmdApplyBatch == <<"/", "b", "o", "o", "m", "A", "I", " ", "a", "p", "p", "l", "y", "-", "b", "a", "t", "c", "h">>

\* handle_command(comment_body); the checkbox lines of an apply-batch comment
\* are held by checked
HandleCommand ==
    /\ pc = "start"
    /\ comment_body # None
    /\ LET body == strip(comment_body)
           filename == strip(replace_all(body, CmdApplyFile, <<>>))
       IN  IF startswith(body, CmdApplyAll) THEN ApplyAll
           ELSE IF startswith(body, CmdApplyFile)
           THEN IF truthy(filename)
                THEN apply_file(filename)
                ELSE /\ out' = <<Comment("Usage: /boomAI apply-file <filename>", None, 0)>>
                     /\ pc' = "handle_command"
                     /\ UNCHANGED <<content, locatorVars, ret, findings, file_filter,
                                    disk, by_file, fi, todo, file_applied, applied,
                                    calls, writes>>
           ELSE IF startswith(body, CmdApplyBatch) THEN ApplyBatch
           ELSE /\ pc' = "handle_command"
                /\ UNCHANGED <<content, locatorVars, ret, applyVars>>

MaxChecked == 3

MaxCheckedLen == 2

RemoteSamples ==
    { Finding(PathA, 1, None, H_),
      Finding(PathA, 5, None, H_),                          \* past the last line
      Finding(PathB, 1, None, K_) }

RemoteFindingLists == UNION { [1..m -> RemoteSamples] : m \in 0..MaxFindings }

CheckedLists == UNION { [1..m -> 0..MaxChecked] : m \in 0..MaxCheckedLen }

\* the numbers checked in the comments handle_command receives
CommandChecked == { <<>>, <<0>>, <<1>>, <<2, 1>> }

CommentBodies ==
    { CmdApplyAll,
      <<" ">> \o CmdApplyAll \o <<"\n">>,
      CmdApplyFile \o <<" ">> \o PathA,
      CmdApplyFile \o <<" ">> \o PathB \o <<VT>>,
      CmdApplyFile,
      CmdApplyFile \o <<" ", "\t">>,
      CmdApplyBatch,
      <<"h", "i">> }

InitRemote ==
    /\ pc = "start"
    /\ findings \in RemoteFindingLists
    /\ \/ comment_body = None /\ checked \in CheckedLists
       \/ comment_body \in CommentBodies /\ checked \in CommandChecked
    /\ file_contents = <<>>
    /\ char_budget = 0
    /\ file_filter \in Paths
    /\ disk \in Disks
    /\ by_file = <<>>
    /\ fi = 0
    /\ todo = <<>>
    /\ file_applied = 0
    /\ applied = 0
    /\ out = <<>>
    /\ calls = <<>>
    /\ writes = <<>>
    /\ content = <<>>
    /\ old_code = <<>>
    /\ new_code = <<>>
    /\ hint_line = 0
    /\ nl_arg = None
    /\ ret = None

NextRemote == ApplyAll \/ ApplyFile \/ ApplyBatch \/ HandleCommand

SpecRemote == InitRemote /\ [][NextRemote]_vars

\* C28: apply_batch hands to _apply_suggestions exactly the pending
\* suggestions whose checked numbers lie in 1..N, in the order checked; a
\* number outside 1..N, 0 included, selects nothing; when no checked number
\* is in range nothing is committed and the out-of-range comment is posted.
C28_BatchSelectsCheckedInRange ==
    /\ pc # "raised"
    /\ (pc = "apply_batch" /\ checked # <<>>) =>
          LET inrange == SelectSeq(checked, LAMBDA i : i \in 1..Len(findings))
          IN  /\ todo = [k \in 1..Len(inrange) |-> findings[inrange[k]]]
              /\ inrange = <<>> =>
                    /\ calls = <<>>
                    /\ writes = <<>>
                    /\ out = <<Comment("Selected fix numbers are out of range.", None, 0)>>

\* the comments announcing applied suggestions
Announcements ==
    { k \in 1..Len(out) : out[k].msg \in { "Applied suggestion(s).",
                                           "Applied suggestion(s) for file." } }

\* C29: the number apply_all and apply_file announce is the number of
\* suggestions written into a file that was committed.
C29_AnnouncedCountIsAppliedCount ==
    pc \in {"apply_all", "apply_file"} =>
        \A k \in Announcements : out[k].n = Len(calls)

(***************************************************************************)
(* _chunk_files of gemini_review.py: files are <<path, content>> pairs.    *)
(***************************************************************************)

\* header overhead added to every file's size
HeaderOverhead == 20

\* file_size = len(content) + len(path) + 20
file_size(file) == Len(file[2]) + Len(file[1]) + HeaderOverhead

\* sorted(): x stays before y when len(x[1]) <= len(y[1]), the sort is stable
RECURSIVE insert_by_len(_, _)
insert_by_len(sorted, x) ==
    IF sorted = <<>> THEN <<x>>
    ELSE IF Len(Head(sorted)[2]) <= Len(x[2])
         THEN <<Head(sorted)>> \o insert_by_len(Tail(sorted), x)
         ELSE <<x>> \o sorted

\* sorted(file_contents, key=lambda x: len(x[1]))
RECURSIVE sorted_by_len(_)
sorted_by_len(files) ==
    IF files = <<>> THEN <<>>
    ELSE insert_by_len(sorted_by_len(SubSeq(files, 1, Len(files) - 1)),
                       files[Len(files)])

\* mutant of flush: the current chunk is closed even when it is empty
flush_empty_too(current_size, size, budget, current_chunk) ==
    current_size + size > budget

\* current_size + file_size > char_budget and current_chunk
flush(current_size, size, budget, current_chunk) ==
    current_size + size > budget /\ current_chunk # <<>>

\* the for loop over sorted_files and the final append
RECURSIVE chunk_loop(_, _, _, _, _)
chunk_loop(sorted_files, chunks, current_chunk, current_size, budget) ==
    IF sorted_files = <<>>
    THEN IF current_chunk # <<>> THEN Append(chunks, current_chunk) ELSE chunks
    ELSE LET file == Head(sorted_files)
             size == file_size(file)
         IN  IF flush(current_size, size, budget, current_chunk)
             THEN chunk_loop(Tail(sorted_files), Append(chunks, current_chunk),
                             <<file>>, size, budget)
             ELSE chunk_loop(Tail(sorted_files), chunks,
                             Append(current_chunk, file), current_size + size, budget)

\* _chunk_files(file_contents, char_budget)
_chunk_files(files, budget) ==
    LET chunks == chunk_loop(sorted_by_len(files), <<>>, <<>>, 0, budget)
    IN  IF chunks # <<>> THEN chunks ELSE << <<>> >>

ChunkFiles ==
    /\ pc = "start"
    /\ ret' = _chunk_files(file_contents, char_budget)
    /\ pc' = "_chunk_files"
    /\ UNCHANGED <<content, locatorVars, applyVars>>

MaxFiles == 3

MaxBudget == 50

LongFile == FileA \o FileA \o FileA

ChunkSamples == { <<p, c>> : p \in Paths, c \in { <<>>, F_, LongFile } }

FileLists == UNION { [1..m -> ChunkSamples] : m \in 0..MaxFiles }

InitChunk ==
    /\ pc = "start"
    /\ findings = <<>>
    /\ file_filter = None
    /\ disk = <<>>
    /\ by_file = <<>>
    /\ fi = 0
    /\ todo = <<>>
    /\ file_applied = 0
    /\ applied = 0
    /\ out = <<>>
    /\ calls = <<>>
    /\ writes = <<>>
    /\ checked = <<>>
    /\ content = <<>>
    /\ old_code = <<>>
    /\ new_code = <<>>
    /\ hint_line = 0
    /\ nl_arg = None
    /\ ret = None
    /\ file_contents \in FileLists
    /\ char_budget \in 0..MaxBudget
    /\ comment_body = None

NextChunk == ChunkFiles

SpecChunk == InitChunk /\ [][NextChunk]_vars

\* the files of all chunks, one after the other
RECURSIVE concat_chunks(_)
concat_chunks(chunks) ==
    IF chunks = <<>> THEN <<>> ELSE Head(chunks) \o concat_chunks(Tail(chunks))

\* how often the file stands in the list
CountIn(file, files) == Cardinality({ k \in 1..Len(files) : files[k] = file })

\* summed size of a chunk
RECURSIVE chunk_size(_)
chunk_size(chunk) ==
    IF chunk = <<>> THEN 0 ELSE file_size(Head(chunk)) + chunk_size(Tail(chunk))

\* C30: _chunk_files partitions its input: every file stands in the chunks
\* as often as in the input; no chunk is empty unless the input is empty,
\* and then the result is one empty chunk; a chunk's summed size exceeds the
\* budget only when the chunk holds a single file.
C30_ChunksPartitionInput ==
    pc = "_chunk_files" =>
        LET all == concat_chunks(ret)
        IN  /\ Len(all) = Len(file_contents)
            /\ \A file \in ChunkSamples : CountIn(file, all) = CountIn(file, file_contents)
            /\ IF file_contents = <<>>
               THEN ret = << <<>> >>
               ELSE \A k \in 1..Len(ret) : ret[k] # <<>>
            /\ \A k \in 1..Len(ret) :
                  chunk_size(ret[k]) > char_budget => Len(ret[k]) = 1

\* two files share a chunk within the budget, and a file that alone exceeds
\* the budget has a chunk of its own
C30_Witness ==
    /\ pc = "_chunk_files"
    /\ \E k \in 1..Len(ret) : Len(ret[k]) >= 2 /\ chunk_size(ret[k]) <= char_budget
    /\ \E k \in 1..Len(ret) : Len(ret[k]) = 1 /\ chunk_size(ret[k]) > char_budget

=============================================================================
